---- MODULE Spec2Model ----
(***************************************************************************)
(* A model of nb2plots/nbplots.py: the nbplot Sphinx directive.            *)
(*                                                                         *)
(* Text is modelled line by line.  A line is a record                      *)
(*   [ind, t, op, a, v]                                                    *)
(* ind : number of leading spaces                                          *)
(* t   : "blank"   an empty line                                           *)
(*       "part"    the text ".. part"                                      *)
(*       "py"      a simple Python statement (op, a, v say which)          *)
(*       "doctest" ">>> " followed by a simple Python statement            *)
(*       "prose"   text that is neither (not valid Python)                 *)
(*       "comment" a Python comment                                        *)
(*       "coding"  the comment "# -*- coding: ... -*-"                     *)
(* A string is modelled as the list str.split('\n') of its lines, which is *)
(* never empty: '' is the one-element list holding an empty line.          *)
(***************************************************************************)
EXTENDS Integers, Sequences, FiniteSets, TLC

VARIABLES
    cwd,            \* os.getcwd()
    sys_path,       \* sys.path (contents)
    sys_argv,       \* sys.argv
    sys_stdout,     \* sys.stdout
    plot_context,   \* module global plot_context (line 741)
    figs,           \* matplotlib's live figures, Gcf.get_all_fig_managers()
    rc,             \* the last run_code call: its arguments and how it ended
    sel,            \* a _select_parts call: its arguments and, once made, its result
    pp,             \* a parse_parts call: its argument and, once made, its result
    docname,        \* env.docname: the document being read, "none" before any
    nbplot_reset_markers,   \* env.nbplot_reset_markers
    nbplot_flag_namespaces, \* env.nbplot_flag_namespaces
    nbplot_flags,   \* env.config.nbplot_flags
    plot_counter,   \* document.attributes['_plot_counter'] (0 when absent)
    directive,      \* the last nbplot directive run: its arguments and outcome
    visit,          \* the last checked_visit: builder, node and outcome
    stale,          \* history: the names of plot_context that code bound before
                    \* the last purge of the document being read
    doc_bound,      \* history: the names that code of the document being read
                    \* has bound since its last purge
    flag_assigned,  \* history: the flags that nbplot-flags directives of the
                    \* document being read have assigned since its last purge
    doc_out         \* history: the output bases of the nbplot directives of the
                    \* document being read, the image files they wrote, and
                    \* whether one of them raised

ambient == <<cwd, sys_path, sys_argv, sys_stdout>>
procVars == <<cwd, sys_path, sys_argv, sys_stdout, plot_context, figs>>
envVars == <<docname, nbplot_reset_markers, nbplot_flag_namespaces, nbplot_flags,
            plot_counter>>
histVars == <<stale, doc_bound, flag_assigned, doc_out>>

----------------------------------------------------------------------------
(* Lines and strings *)

Line(ind, t, op, a, v) == [ind |-> ind, t |-> t, op |-> op, a |-> a, v |-> v]
Blank == Line(0, "blank", "", "", "")
PartSep == Line(0, "part", "", "", "")
Prose == Line(0, "prose", "", "", "")
Py(op, a) == Line(0, "py", op, a, "")
Doctest(op, a) == Line(0, "doctest", op, a, "")
Assign(k, v) == Line(0, "py", "bind", k, v)
Indent(n, l) == [l EXCEPT !.ind = n]

\* '\n'.join(lines): the string, as the list of its lines
Join(lines) == IF lines = <<>> THEN <<Blank>> ELSE lines

\* F applied to the value of v: a local variable, computed once
Let(v, F(_)) == CHOOSE y \in {F(x) : x \in {v}} : TRUE

EmptyText == <<Blank>>
\* None where a string is expected
NoText == <<>>

----------------------------------------------------------------------------
(* Python exceptions *)

\* the direct base class of each exception class the model uses
BaseOf(c) ==
    CASE c = "BaseException" -> "object"
      [] c \in {"Exception", "SystemExit", "KeyboardInterrupt"} -> "BaseException"
      [] c = "PlotError" -> "RuntimeError"
      [] c = "PlotValueError" -> "ValueError"
      [] c = "IndentationError" -> "SyntaxError"
      [] OTHER -> "Exception"

RECURSIVE issubclass(_, _)
issubclass(c, base) ==
    IF c = base THEN TRUE
    ELSE IF c = "object" THEN FALSE
    ELSE issubclass(BaseOf(c), base)

----------------------------------------------------------------------------
(* Doctest handling (lines 643-681) *)

\* compile(text, '<string>', 'exec') succeeds: every line is a statement at
\* column 0, a comment or blank
Compiles(text) ==
    \A i \in 1..Len(text) :
        \/ text[i].t \in {"blank", "comment", "coding"}
        \/ text[i].t = "py" /\ text[i].ind = 0

contains_doctest(text) ==
    IF Compiles(text) THEN FALSE
    ELSE \E i \in 1..Len(text) : text[i].t = "doctest"

\* every line of the result ends in "\n", so the result's last line is empty
unescape_doctest(text) ==
    IF ~contains_doctest(text) THEN text
    ELSE [i \in 1..Len(text) |->
             IF text[i].t = "doctest" THEN Py(text[i].op, text[i].a)
             ELSE IF text[i].t # "blank" THEN Line(0, "comment", "", "", "")
             ELSE Blank] \o <<Blank>>

remove_coding(text) ==
    [i \in 1..Len(text) |-> IF text[i].t = "coding" THEN Blank ELSE text[i]]

\* "__main__" in code
MentionsMain(text) == \E i \in 1..Len(text) : text[i].op = "ifmain"

----------------------------------------------------------------------------
(* Executing Python code.  A namespace is a function from names to values; *)
(* a value records what kind of object it is and the file whose code bound *)
(* it.  The world w is the process state code can reach,                   *)
(*   [cwd, path, argv, stdout, figs, bound],                               *)
(* where bound is history: the names assigned since the call began.        *)

EmptyNs == [n \in {} |-> 0]
Val(k, src) == [k |-> k, src |-> src]
Bind(ns, n, val) == (n :> val) @@ ns

\* the directories that exist
ExistingDirs == {"/proj", "/proj/doc", "/tmp"}

Step(ns, w, exc) == [ns |-> ns, w |-> w, exc |-> exc]

\* one simple statement, in namespace ns and world w, as code of file src
ExecStmt(l, ns, w, src) ==
    CASE l.op = "bind" ->
            Step(Bind(ns, l.a, Val("val", src)), [w EXCEPT !.bound = @ \cup {l.a}], "")
      [] l.op = "def" ->
            Step(Bind(ns, l.a, Val(l.v, src)), [w EXCEPT !.bound = @ \cup {l.a}], "")
      [] l.op = "use" -> Step(ns, w, IF l.a \in DOMAIN ns THEN "" ELSE "NameError")
      [] l.op = "raise" -> Step(ns, w, l.a)
      [] l.op = "fig" -> Step(ns, [w EXCEPT !.figs = Append(@, [src |-> src])], "")
      [] l.op = "chdir" ->
            IF l.a \in ExistingDirs THEN Step(ns, [w EXCEPT !.cwd = l.a], "")
            ELSE Step(ns, w, "OSError")
      [] l.op = "syspath" -> Step(ns, [w EXCEPT !.path = Append(@, "/extra")], "")
      [] l.op = "argv" -> Step(ns, [w EXCEPT !.argv = <<"other">>], "")
      [] l.op = "stdout" -> Step(ns, [w EXCEPT !.stdout = "devnull"], "")
      [] OTHER -> Step(ns, w, "")

RECURSIVE ExecFrom(_, _, _, _, _)
ExecFrom(text, i, ns, w, src) ==
    IF i > Len(text) THEN Step(ns, w, "")
    ELSE IF text[i].t # "py" THEN ExecFrom(text, i + 1, ns, w, src)
    ELSE Let(ExecStmt(text[i], ns, w, src),
             LAMBDA s : IF s.exc # "" THEN s ELSE ExecFrom(text, i + 1, s.ns, s.w, src))

\* six.exec_(text, ns): nothing runs when the text does not compile
exec_(text, ns, w, src) ==
    IF ~Compiles(text) THEN Step(ns, w, "SyntaxError")
    ELSE ExecFrom(text, 1, ns, w, src)

\* six.exec_(function_name + "()", ns)
CallFunction(name, ns, w) ==
    IF name \notin DOMAIN ns THEN Step(ns, w, "NameError")
    ELSE IF ns[name].k = "fn" THEN Step(ns, w, "")
    ELSE IF ns[name].k = "badfn" THEN Step(ns, w, "ValueError")
    ELSE Step(ns, w, "TypeError")

----------------------------------------------------------------------------
(* run_code (lines 838-920) *)

\* "except raises: pass" (lines 907-910): the exception is one the caller expects
SuppressedAll(exc, raises) == raises # "None"
Suppressed(exc, raises) == raises # "None" /\ issubclass(exc, raises)

\* "except (Exception, SystemExit)" (line 913)
CaughtAny(exc) == TRUE
Caught(exc) == issubclass(exc, "Exception") \/ issubclass(exc, "SystemExit")

\* the finally clause (lines 915-919)
RestoreNoPath(w, pwd, old_sys_argv, old_sys_path, stdout) ==
    [w EXCEPT !.cwd = pwd, !.argv = old_sys_argv, !.stdout = stdout]
Restore(w, pwd, old_sys_argv, old_sys_path, stdout) ==
    [w EXCEPT !.cwd = pwd, !.argv = old_sys_argv, !.path = old_sys_path,
              !.stdout = stdout]

\* a string or None, as a condition
Truthy(text) == text # NoText /\ text # EmptyText

\* The body of the inner try (lines 897-912).  pre, code, fn: the exception
\* each of the three executions ended with, "" for none, "-" when not run.
Body(ns, w, exc, pre, code, fn) ==
    [ns |-> ns, w |-> w, exc |-> exc, pre |-> pre, code |-> code, fn |-> fn]

TryBody(code, code_path, ns, function_name, pre_code, raises, w) ==
    LET code1 == unescape_doctest(code)
        run_pre == Truthy(pre_code) /\ DOMAIN ns = {}
    IN  Let(IF run_pre THEN exec_(pre_code, ns, w, code_path) ELSE Step(ns, w, ""),
        LAMBDA s1 :
        LET pre == IF run_pre THEN s1.exc ELSE "-"
        IN  IF s1.exc # "" THEN Body(s1.ns, s1.w, s1.exc, pre, "-", "-")
            ELSE
            LET ns2 == Bind(s1.ns, "print", Val("dummy", "run_code"))
                ns3 == IF MentionsMain(code1)
                       THEN Bind(ns2, "__name__", Val("val", "run_code")) ELSE ns2
                code2 == remove_coding(code1)
            IN  Let(exec_(code2, ns3, s1.w, code_path),
                LAMBDA s3 :
                LET exc3 == IF s3.exc # "" /\ Suppressed(s3.exc, raises) THEN ""
                            ELSE s3.exc
                IN  IF exc3 # "" THEN Body(s3.ns, s3.w, exc3, pre, s3.exc, "-")
                    ELSE IF function_name \in {"None", ""}
                    THEN Body(s3.ns, s3.w, "", pre, s3.exc, "-")
                    ELSE Let(CallFunction(function_name, s3.ns, s3.w),
                             LAMBDA s4 : Body(s4.ns, s4.w, s4.exc, pre, s3.exc, s4.exc))))

\* ns_arg is << >> for None and <<ns>> for a namespace.  The result: ret is
\* "return" or "raise" (of exc); ns is the namespace as the call left it; w the
\* world after the call and inner the world when the finally clause began.
run_code(code, code_path, ns_arg, function_name, workdir, pre_code, raises, w) ==
    LET pwd == w.cwd
        old_sys_path == w.path
        wd == IF workdir = "None" THEN w.cwd ELSE workdir
        ns == IF ns_arg = <<>> THEN EmptyNs ELSE ns_arg[1]
    IN  IF wd \notin ExistingDirs
        THEN \* os.chdir(workdir) raises (line 877)
             [ret |-> "raise", exc |-> "OSError", ns |-> ns, w |-> w, inner |-> w,
              pre |-> "-", code |-> "-", fn |-> "-"]
        ELSE
        LET old_sys_argv == w.argv
            stdout == w.stdout
            w1 == [w EXCEPT !.cwd = wd, !.path = <<wd>> \o @,
                            !.argv = <<code_path>>, !.stdout = "StringIO"]
        IN  Let(TryBody(code, code_path, ns, function_name, pre_code, raises, w1),
            LAMBDA b :
            LET exc == IF b.exc = "" THEN ""
                       ELSE IF Caught(b.exc) THEN "PlotError" ELSE b.exc
            IN  [ret |-> IF exc = "" THEN "return" ELSE "raise", exc |-> exc,
                 ns |-> b.ns,
                 w |-> Restore(b.w, pwd, old_sys_argv, old_sys_path, stdout),
                 inner |-> b.w, pre |-> b.pre, code |-> b.code, fn |-> b.fn])

----------------------------------------------------------------------------
(* The Sphinx environment (lines 1027-1037, 1067-1101) *)

\* Python values where their type matters, [ty, n, items]: an int n, None, a
\* float, a str of n characters, or a tuple of items
PyInt(n) == [ty |-> "int", n |-> n, items |-> <<>>]
PyNone == [ty |-> "NoneType", n |-> 0, items |-> <<>>]
PyFloat == [ty |-> "float", n |-> 0, items |-> <<>>]
PyStr(n) == [ty |-> "str", n |-> n, items |-> <<>>]
PyTuple(items) == [ty |-> "tuple", n |-> 0, items |-> items]

\* A dict object the environment refers to is [own, ns]: own says it is an
\* object of its own, holding ns; when it is not, it is the very object
\* env.config.nbplot_flags.
no_copy(d) == [own |-> FALSE, ns |-> d]
copy(d) == [own |-> TRUE, ns |-> d]
Deref(ref, config_flags) == IF ref.own THEN ref.ns ELSE config_flags

\* nbplot_flags as conf.py sets it
DefaultFlags == ("slow" :> PyInt(0))

\* the documents of the project and the file each is read from
Docs == {"index", "doc/a.b"}
SourceOf(doc) == IF doc = "index" THEN "/proj/index.rst" ELSE "/proj/doc/a.b.rst"

\* defaultdict(_false) and defaultdict(dict): what each holds for a key never set
do_builder_init ==
    /\ nbplot_reset_markers = [d \in Docs |-> FALSE]
    /\ nbplot_flag_namespaces = [d \in Docs |-> copy(EmptyNs)]

NoCall == [called |-> FALSE]

\* no nbplot directive of the document has run
NoOutput == [bases |-> <<>>, files |-> {}, raised |-> FALSE]

\* after builder-inited, before any document is read
InitEnv ==
    /\ do_builder_init
    /\ nbplot_flags = DefaultFlags
    /\ flag_assigned = EmptyNs
    /\ docname = "none"
    /\ plot_counter = 0
    /\ directive = NoCall
    /\ visit = NoCall
    /\ stale = {}
    /\ doc_bound = {}
    /\ doc_out = NoOutput

----------------------------------------------------------------------------
(* Calls of run_code *)

\* most figures alive at once
MaxFigs == 2

World == [cwd |-> cwd, path |-> sys_path, argv |-> sys_argv,
          stdout |-> sys_stdout, figs |-> figs, bound |-> {}]

RC_Codes ==
    { <<Py("bind", "x")>>,
      <<Py("raise", "ValueError")>>,
      <<Py("raise", "KeyError")>>,
      <<Py("raise", "KeyboardInterrupt")>>,
      <<Py("raise", "SystemExit")>>,
      <<Py("chdir", "/tmp"), Py("syspath", ""), Py("argv", ""), Py("stdout", "")>>,
      <<Py("chdir", "/tmp"), Py("syspath", ""), Py("argv", ""), Py("stdout", ""),
        Py("raise", "ValueError")>>,
      <<Prose, Doctest("bind", "x"), Doctest("raise", "ValueError")>>,
      <<Line(0, "coding", "", "", ""), Py("ifmain", ""), Line(0, "py", "def", "f", "fn")>>,
      <<Line(0, "py", "def", "f", "badfn"), Py("fig", "")>>,
      <<Prose>> }
RC_Raises == {"None", "ValueError", "KeyboardInterrupt"}
RC_PreCodes == {NoText, <<Py("bind", "np")>>, <<Py("raise", "ValueError")>>}

NsWithX == Bind(EmptyNs, "x", Val("val", "a.rst"))

\* the calls made: every code with every expected class, with each pre_code in
\* a fresh namespace, with a post-function, and in a namespace that already
\* holds a name; and a working directory that does not exist
RC_Calls ==
    [code : RC_Codes, raises : RC_Raises, function_name : {"None"},
     pre_code : RC_PreCodes, workdir : {"/proj/doc"}, ns_arg : {<<>>}]
    \cup
    [code : RC_Codes, raises : RC_Raises, function_name : {"f"},
     pre_code : {NoText}, workdir : {"None"}, ns_arg : {<<NsWithX>>}]
    \cup
    [code : RC_Codes, raises : {"None"}, function_name : {"None"},
     pre_code : {<<Py("bind", "np")>>}, workdir : {"/proj/doc"},
     ns_arg : {<<NsWithX>>, <<EmptyNs>>}]
    \cup
    [code : {<<Py("bind", "x")>>}, raises : {"None"}, function_name : {"None"},
     pre_code : {NoText}, workdir : {"/missing"}, ns_arg : {<<>>, <<NsWithX>>}]

RunCodeCall ==
    /\ Len(figs) < MaxFigs
    /\ \E c \in RC_Calls :
          \E r \in {run_code(c.code, "a.rst", c.ns_arg, c.function_name, c.workdir,
                            c.pre_code, c.raises, World)} :
              /\ cwd' = r.w.cwd
              /\ sys_path' = r.w.path
              /\ sys_argv' = r.w.argv
              /\ sys_stdout' = r.w.stdout
              /\ figs' = r.w.figs
              /\ rc' = [called |-> TRUE, raises |-> c.raises,
                        function_name |-> c.function_name,
                        ret |-> r.ret, exc |-> r.exc, ns |-> r.ns,
                        pre |-> r.pre, code |-> r.code, fn |-> r.fn,
                        inner |-> r.inner, before |-> ambient]
    /\ UNCHANGED <<plot_context, sel, pp, envVars, directive, visit, histVars>>

InitRunCode ==
    /\ cwd \in {"/proj", "/tmp"}
    /\ sys_path \in {<<"/lib">>, <<"/proj", "/lib">>}
    /\ sys_argv = <<"sphinx-build">>
    /\ sys_stdout = "tty"
    /\ plot_context = EmptyNs
    /\ figs = <<>>
    /\ rc = NoCall
    /\ sel = NoCall
    /\ pp = NoCall
    /\ InitEnv

vars == <<cwd, sys_path, sys_argv, sys_stdout, plot_context, figs, rc, sel, pp,
          docname, nbplot_reset_markers, nbplot_flag_namespaces, nbplot_flags,
          plot_counter, flag_assigned,
          directive, visit, stale, doc_bound, doc_out>>

NextRunCode == RunCodeCall

SpecRunCode == InitRunCode /\ [][NextRunCode]_vars

\* C1: after every call of run_code, however it ended, the working directory,
\* sys.path, sys.argv and sys.stdout are what they were before the call.
RunCodeRestoresAmbient == rc.called => ambient = rc.before

\* the code changed all four and then failed
RunCodeRestoresWitness ==
    /\ rc.called /\ rc.ret = "raise" /\ rc.code = "ValueError"
    /\ rc.inner.cwd # rc.before[1] /\ rc.inner.stdout = "devnull"
    /\ rc.inner.argv = <<"other">> /\ Len(rc.inner.path) > Len(rc.before[2]) + 1

\* C4: with an expected exception class and code that raises nothing, the call
\* fails with a PlotError.
ExpectedNotRaisedFails ==
    (rc.called /\ rc.raises # "None" /\ rc.code = "")
        => (rc.ret = "raise" /\ rc.exc = "PlotError")

\* C5 as stated: an expected exception is suppressed and the call returns; any
\* other exception of the code makes the call fail with a PlotError.
CodeExceptionOriginal ==
    (rc.called /\ rc.code \notin {"-", ""}) =>
        IF rc.raises # "None" /\ issubclass(rc.code, rc.raises)
        THEN rc.ret = "return"
        ELSE rc.ret = "raise" /\ rc.exc = "PlotError"

\* C5 amended: an expected exception is suppressed, and the call returns unless
\* a post-function then fails; any other exception of the code makes the call
\* fail with a PlotError when it is an Exception or a SystemExit, and leaves the
\* call unchanged when it is not (KeyboardInterrupt).
CodeExceptionAmended ==
    (rc.called /\ rc.code \notin {"-", ""}) =>
        IF rc.raises # "None" /\ issubclass(rc.code, rc.raises)
        THEN IF rc.fn \in {"-", ""} THEN rc.ret = "return"
             ELSE rc.ret = "raise" /\ rc.exc = "PlotError"
        ELSE /\ rc.ret = "raise"
             /\ rc.fn = "-"
             /\ rc.exc = IF \/ issubclass(rc.code, "Exception")
                            \/ issubclass(rc.code, "SystemExit")
                         THEN "PlotError" ELSE rc.code

\* an expected ValueError was suppressed, and an unexpected KeyError was not
CodeExceptionWitness ==
    /\ rc.called /\ rc.raises = "ValueError" /\ rc.code = "ValueError"
    /\ rc.ret = "return"

----------------------------------------------------------------------------
(* Parts (lines 765-821) *)

IsEmptyLine(l) == l.t = "blank" /\ l.ind = 0
\* the text the separator pattern wants: ".. part" from the first column
IsPartLine(l) == l.t = "part" /\ l.ind = 0
\* " *\w+ *= *.+": an assignment, indented or not
IsAttrLine(l) == l.t = "py" /\ l.op = "bind"

SubLines(s, from, to) == [i \in 1..(to - from + 1) |-> s[from + i - 1]]

\* '\n'.join(lines).strip(), as a list of lines (<<>> for '')
StripTextTrailing(lines) ==
    LET full == {i \in 1..Len(lines) : lines[i].t # "blank"}
    IN  IF full = {} THEN <<>>
        ELSE SubLines(lines, 1, CHOOSE i \in full : \A j \in full : j <= i)
StripText(lines) ==
    LET full == {i \in 1..Len(lines) : lines[i].t # "blank"}
    IN  IF full = {} THEN <<>>
        ELSE LET first == CHOOSE i \in full : \A j \in full : i <= j
                 last == CHOOSE i \in full : \A j \in full : j <= i
                 cut == SubLines(lines, first, last)
             IN  [cut EXCEPT ![1] = Indent(0, @)]

\* str.splitlines() of the string these lines make: a final line break ends
\* the last line and starts no new one
SplitLines(ls) ==
    IF ls = <<>> THEN <<>>
    ELSE IF IsEmptyLine(ls[Len(ls)]) THEN SubLines(ls, 1, Len(ls) - 1)
    ELSE ls

\* the last of the attribute lines that follow the ".. part" line i
RECURSIVE AttrEnd(_, _)
AttrEnd(s, j) ==
    IF j + 1 <= Len(s) /\ IsAttrLine(s[j + 1]) THEN AttrEnd(s, j + 1) ELSE j

\* PARTER matches with its ".. part" on line i, when the text from line p on
\* is still unmatched: the separator starts the text or follows an empty line,
\* and an empty line ends its attributes
PartMatches(s, p, i) ==
    /\ IsPartLine(s[i])
    /\ \/ i = 1
       \/ i - 2 >= p /\ IsEmptyLine(s[i - 1])
    /\ LET j == AttrEnd(s, i)
       IN  j + 2 <= Len(s) /\ IsEmptyLine(s[j + 1])

\* PARTER.split(text): the strings between the matches and, after each of
\* them, the attribute lines of the match that follows
RECURSIVE PartStrs(_, _, _)
PartStrs(s, p, i) ==
    IF i > Len(s) THEN << SubLines(s, p, Len(s)) >>
    ELSE IF PartMatches(s, p, i)
    THEN LET j == AttrEnd(s, i)
         IN  << SubLines(s, p, i - 2), SubLines(s, i + 1, j) >>
             \o PartStrs(s, j + 2, j + 2)
    ELSE PartStrs(s, p, i + 1)

Min(S) == CHOOSE x \in S : \A y \in S : x <= y

\* dict(pairs): a later pair replaces an earlier one with its key
RECURSIVE DictOfFirst(_, _)
DictOfFirst(ls, i) ==
    IF i = 0 THEN EmptyNs
    ELSE DictOfFirst(ls, i - 1) @@ (ls[i].a :> ls[i].v)
RECURSIVE DictOf(_, _)
DictOf(ls, i) ==
    IF i = 0 THEN EmptyNs
    ELSE (ls[i].a :> ls[i].v) @@ DictOf(ls, i - 1)

\* _proc_part_def: [ok, d] or [ok, exc]
_proc_part_def(part_def) ==
    IF part_def = <<>> THEN [ok |-> TRUE, d |-> EmptyNs]
    ELSE IF part_def[1].ind = 0
    THEN [ok |-> FALSE, exc |-> "PlotValueError"]
    ELSE LET common == Min({part_def[i].ind : i \in 1..Len(part_def)})
         IN  IF \E i \in 1..Len(part_def) : part_def[i].ind > common
             THEN [ok |-> FALSE, exc |-> "PlotValueError"]
             ELSE [ok |-> TRUE, d |-> DictOf(part_def, Len(part_def))]

\* _part_strs2dicts, from pair i on
RECURSIVE _part_strs2dicts(_, _)
_part_strs2dicts(part_strs, i) ==
    IF i > Len(part_strs) THEN [ok |-> TRUE, parts |-> <<>>]
    ELSE LET d == _proc_part_def(part_strs[i])
         IN  IF ~d.ok THEN d
             ELSE LET part_dict == ("contents" :> SplitLines(part_strs[i + 1])) @@ d.d
                      rest == _part_strs2dicts(part_strs, i + 2)
                  IN  IF ~rest.ok THEN rest
                      ELSE [ok |-> TRUE, parts |-> <<part_dict>> \o rest.parts]

\* parse_parts: [ok, parts] or [ok, exc]
parse_parts(lines) ==
    LET text == StripText(lines)
        part_strs == IF text = <<>> THEN << <<>> >> ELSE PartStrs(text, 1, 1)
    IN  IF Len(part_strs) = 1
        THEN [ok |-> TRUE, parts |-> << [contents |-> SplitLines(part_strs[1])] >>]
        ELSE IF part_strs[1] = <<>>
        THEN _part_strs2dicts(part_strs, 2)
        ELSE _part_strs2dicts(<< <<>> >> \o part_strs, 1)

----------------------------------------------------------------------------
(* Part selection (lines 390-405).  A Python value is [ty, n, items]:     *)
(* an int n, None, a float, a str of n characters, or a tuple of items.    *)

\* an expression is a literal or a name: eval(expr, name_space)
Lit(val) == [e |-> "lit", val |-> val, name |-> ""]
Name(name) == [e |-> "name", val |-> PyNone, name |-> name]
eval(expr, name_space) ==
    IF expr.e = "lit" THEN [ok |-> TRUE, val |-> expr.val]
    ELSE IF expr.name \in DOMAIN name_space
    THEN [ok |-> TRUE, val |-> name_space[expr.name]]
    ELSE [ok |-> FALSE, exc |-> "NameError"]

\* isinstance(val, Sequence)
IsSequence(val) == val.ty \in {"tuple", "str"}
\* what iterating over a sequence gives: a str gives its characters
Elements(val) ==
    IF val.ty = "str" THEN [i \in 1..val.n |-> PyStr(1)] ELSE val.items

\* _get_parts: [ok, indices] or [ok, exc]
_get_parts_unwrapped(options, option_name, flags) ==
    IF option_name \notin DOMAIN options THEN [ok |-> TRUE, indices |-> <<PyInt(0)>>]
    ELSE LET r == eval(options[option_name], flags)
         IN  IF ~r.ok THEN r ELSE [ok |-> TRUE, indices |-> Elements(r.val)]
_get_parts(options, option_name, flags) ==
    IF option_name \notin DOMAIN options THEN [ok |-> TRUE, indices |-> <<PyInt(0)>>]
    ELSE LET name_space == flags
             r == eval(options[option_name], name_space)
         IN  IF ~r.ok THEN r
             ELSE [ok |-> TRUE,
                   indices |-> IF IsSequence(r.val) THEN Elements(r.val) ELSE <<r.val>>]

\* parts[i]['contents'] for each i of indices, from the k-th on, as one list:
\* [ok, lines] or [ok, exc]
RECURSIVE Selected(_, _, _)
Selected(parts, indices, k) ==
    IF k > Len(indices) THEN [ok |-> TRUE, lines |-> <<>>]
    ELSE LET i == indices[k]
         IN  IF i.ty # "int" THEN [ok |-> FALSE, exc |-> "TypeError"]
             ELSE IF i.n >= Len(parts) \/ i.n < -Len(parts)
             THEN [ok |-> FALSE, exc |-> "IndexError"]
             ELSE LET part == parts[IF i.n >= 0 THEN i.n + 1 ELSE Len(parts) + i.n + 1]
                      rest == Selected(parts, indices, k + 1)
                  IN  IF ~rest.ok THEN rest
                      ELSE [ok |-> TRUE, lines |-> part["contents"] \o rest.lines]

\* _select_parts: [ok, to_render, to_run] or [ok, exc]
_select_parts(content, options, flags) ==
    LET parsed == parse_parts(content)
    IN  IF ~parsed.ok THEN parsed
        ELSE
        LET render_parts == _get_parts(options, "render-parts", flags)
        IN  IF ~render_parts.ok THEN render_parts
            ELSE
            LET to_render == Selected(parsed.parts, render_parts.indices, 1)
            IN  IF ~to_render.ok THEN to_render
                ELSE
                LET run_parts == _get_parts(options, "run-parts", flags)
                IN  IF ~run_parts.ok THEN run_parts
                    ELSE
                    LET to_run == Selected(parsed.parts, run_parts.indices, 1)
                    IN  IF ~to_run.ok THEN to_run
                        ELSE [ok |-> TRUE, to_render |-> Join(to_render.lines),
                              to_run |-> Join(to_run.lines)]

----------------------------------------------------------------------------
(* Calls of _select_parts *)

\* longest directive content, in lines
MaxContentLen == 5

BoundedSeq(S, n) == UNION {[1..k -> S] : k \in 0..n}

\* the state a run of sphinx-build starts in
InitProcess ==
    /\ cwd = "/proj"
    /\ sys_path = <<"/lib">>
    /\ sys_argv = <<"sphinx-build">>
    /\ sys_stdout = "tty"
    /\ plot_context = EmptyNs
    /\ figs = <<>>

PartsAlphabet == {Py("bind", "x"), Py("fig", ""), Blank, PartSep}
PartsContents == BoundedSeq(PartsAlphabet, MaxContentLen)
RenderExprs ==
    { Lit(PyInt(0)), Lit(PyInt(1)), Lit(PyInt(-1)), Lit(PyInt(2)),
      Lit(PyTuple(<<PyInt(1), PyInt(0), PyInt(1)>>)), Lit(PyTuple(<<>>)),
      Lit(PyTuple(<<PyInt(0), PyFloat>>)), Lit(PyNone), Lit(PyStr(0)), Lit(PyStr(2)),
      Name("slow"), Name("nope") }
RunExprs == { Lit(PyInt(1)), Lit(PyTuple(<<PyInt(0), PyInt(0)>>)), Lit(PyStr(0)) }
PartsOptions ==
    {EmptyNs}
    \cup {("render-parts" :> r) : r \in RenderExprs}
    \cup {("run-parts" :> u) : u \in RunExprs}
    \cup {("render-parts" :> r) @@ ("run-parts" :> u) : r \in RenderExprs, u \in RunExprs}
\* env.nbplot_flag_namespaces[env.docname]
PartsFlags == ("slow" :> PyInt(1))

InitParts ==
    /\ InitProcess
    /\ InitEnv
    /\ rc = NoCall
    /\ pp = NoCall
    /\ sel \in [content : PartsContents, options : PartsOptions,
                called : {FALSE}, res : {[ok |-> FALSE, exc |-> "-"]}]

SelectParts ==
    /\ ~sel.called
    /\ sel' = [sel EXCEPT !.called = TRUE,
                          !.res = _select_parts(sel.content, sel.options, PartsFlags)]
    /\ UNCHANGED <<procVars, rc, pp, envVars, directive, visit, histVars>>

NextParts == SelectParts

SpecParts == InitParts /\ [][NextParts]_vars

\* what the option's expression evaluated to (None when the option is absent
\* or its name is unbound)
OptionValue(name) ==
    IF name \notin DOMAIN sel.options THEN PyNone
    ELSE IF sel.options[name].e = "lit" THEN sel.options[name].val
    ELSE IF sel.options[name].name \in DOMAIN PartsFlags
    THEN PartsFlags[sel.options[name].name] ELSE PyNone
OptionEvaluates(name) ==
    /\ name \in DOMAIN sel.options
    /\ sel.options[name].e = "name" => sel.options[name].name \in DOMAIN PartsFlags

\* the option's value is an integer or a tuple of integers
IsIndices(val) ==
    \/ val.ty = "int"
    \/ val.ty = "tuple" /\ \A k \in 1..Len(val.items) : val.items[k].ty = "int"
\* the integers an option asks for, 0 when it is absent
Asked(name) ==
    IF name \notin DOMAIN sel.options THEN <<0>>
    ELSE LET val == OptionValue(name)
         IN  IF val.ty = "int" THEN <<val.n>>
             ELSE [k \in 1..Len(val.items) |-> val.items[k].n]
\* the option is absent, or asks for parts that exist
AsksForParts(name, parts) ==
    \/ name \notin DOMAIN sel.options
    \/ /\ OptionEvaluates(name) /\ IsIndices(OptionValue(name))
       /\ \A k \in 1..Len(Asked(name)) :
             Asked(name)[k] < Len(parts) /\ Asked(name)[k] >= -Len(parts)

\* the content lines of parts[i], for each i of idx from the k-th on
RECURSIVE LinesOf(_, _, _)
LinesOf(parts, idx, k) ==
    IF k > Len(idx) THEN <<>>
    ELSE parts[IF idx[k] >= 0 THEN idx[k] + 1 ELSE Len(parts) + idx[k] + 1]["contents"]
         \o LinesOf(parts, idx, k + 1)

\* C9: for render-parts and for run-parts, the text selected is the newline-join
\* of the content lines of parts[i] for each i the option gives, in the order
\* given, and of part 0 when the option is absent.
SelectPartsJoinsInOrder ==
    LET parsed == parse_parts(sel.content)
    IN  (/\ sel.called /\ parsed.ok
         /\ AsksForParts("render-parts", parsed.parts)
         /\ AsksForParts("run-parts", parsed.parts))
        => /\ sel.res.ok
           /\ sel.res.to_render
                 = Join(LinesOf(parsed.parts, Asked("render-parts"), 1))
           /\ sel.res.to_run = Join(LinesOf(parsed.parts, Asked("run-parts"), 1))
           /\ "render-parts" \notin DOMAIN sel.options
                 => sel.res.to_render = Join(parsed.parts[1]["contents"])
           /\ "run-parts" \notin DOMAIN sel.options
                 => sel.res.to_run = Join(parsed.parts[1]["contents"])

\* parts 1, 0, 1 of two parts that differ were asked for, and part 1 to run
SelectPartsWitness ==
    /\ sel.called /\ sel.res.ok
    /\ "render-parts" \in DOMAIN sel.options /\ "run-parts" \in DOMAIN sel.options
    /\ sel.options["render-parts"] = Lit(PyTuple(<<PyInt(1), PyInt(0), PyInt(1)>>))
    /\ sel.options["run-parts"] = Lit(PyInt(1))
    /\ sel.res.to_render = <<Py("fig", ""), Py("bind", "x"), Py("fig", "")>>
    /\ sel.res.to_run = <<Py("fig", "")>>

\* C10: an expression whose value is neither an integer nor a sequence of
\* integers makes part selection fail.
BadSelectionFails ==
    (/\ sel.called /\ parse_parts(sel.content).ok
     /\ \E name \in {"render-parts", "run-parts"} :
           OptionEvaluates(name) /\ ~IsIndices(OptionValue(name)))
    => ~sel.res.ok

----------------------------------------------------------------------------
(* Calls of parse_parts *)

\* longest content parsed, in lines
MaxParseLen == 5

ParseAlphabet ==
    { Blank, PartSep, Prose, Indent(2, Prose),
      Indent(2, Assign("a", "1")), Indent(2, Assign("a", "2")),
      Indent(2, Assign("contents", "1")), Indent(4, Assign("b", "1")) }

InitParse ==
    /\ InitProcess
    /\ InitEnv
    /\ rc = NoCall
    /\ sel = NoCall
    /\ pp \in [content : BoundedSeq(ParseAlphabet, MaxParseLen), called : {FALSE},
               res : {[ok |-> FALSE, exc |-> "-"]}]

ParseParts ==
    /\ ~pp.called
    /\ pp' = [pp EXCEPT !.called = TRUE, !.res = parse_parts(pp.content)]
    /\ UNCHANGED <<procVars, rc, sel, envVars, directive, visit, histVars>>

NextParse == ParseParts

SpecParse == InitParse /\ [][NextParse]_vars

\* the content holds no ".. part" line
NoSeparator == \A i \in 1..Len(pp.content) : pp.content[i].t # "part"

\* the lines that hold text
TextLines == {i \in 1..Len(pp.content) : pp.content[i].t # "blank"}

WrittenCount ==
    LET c == pp.content
        ok(n) ==
            /\ n + 3 <= Len(c)
            /\ c[1] = PartSep
            /\ \A i \in 2..(n + 1) : IsAttrLine(c[i]) /\ c[i].ind > 0 /\ c[i].ind = c[2].ind
            /\ c[n + 2] = Blank
            /\ c[n + 3].t \notin {"blank", "part"}
            /\ c[Len(c)].t # "blank"
            /\ \A i \in (n + 3)..Len(c) : c[i].t # "part"
    IN  IF \E n \in 0..Len(c) : ok(n) THEN CHOOSE n \in 0..Len(c) : ok(n) ELSE -1

WrittenKeys == {pp.content[i].a : i \in 2..(WrittenCount + 1)}

\* C12 as stated: the attributes of the part of a well-formed block are exactly
\* the pairs written: each written key present with its written value, and no
\* other attribute key.
AttributesOriginal ==
    (pp.called /\ WrittenCount >= 0) =>
        /\ pp.res.ok /\ Len(pp.res.parts) = 1
        /\ DOMAIN pp.res.parts[1] \ {"contents"} = WrittenKeys \ {"contents"}
        /\ \A i \in 2..(WrittenCount + 1) :
              /\ pp.content[i].a \in DOMAIN pp.res.parts[1]
              \* what 'contents' holds is a list of lines, never a written value
              /\ pp.content[i].a # "contents"
              /\ pp.res.parts[1][pp.content[i].a] = pp.content[i].v

\* C12 amended: the attributes of the part of a well-formed block are the
\* written keys other than 'contents', each with the value written last for
\* it; 'contents' holds the part's lines whether or not it was written.
AttributesAmended ==
    (pp.called /\ WrittenCount >= 0) =>
        /\ pp.res.ok /\ Len(pp.res.parts) = 1
        /\ DOMAIN pp.res.parts[1] = (WrittenKeys \ {"contents"}) \cup {"contents"}
        /\ pp.res.parts[1]["contents"]
              = SubLines(pp.content, WrittenCount + 3, Len(pp.content))
        /\ \A i \in 2..(WrittenCount + 1) :
              (/\ pp.content[i].a # "contents"
               /\ \A j \in (i + 1)..(WrittenCount + 1) : pp.content[j].a # pp.content[i].a)
              => pp.res.parts[1][pp.content[i].a] = pp.content[i].v

\* a key written twice with different values
AttributesWitness ==
    /\ pp.called /\ WrittenCount = 2
    /\ pp.content[2] = Indent(2, Assign("a", "1"))
    /\ pp.content[3] = Indent(2, Assign("a", "2"))
    /\ pp.res.parts[1]["a"] = "2"

----------------------------------------------------------------------------
(* Builder visibility (lines 276-296, 470-487, 621-636).  Node attributes  *)
(* and directive options are functions from the keys present to values.   *)
(* The string of a hide-from or show-to option is the list of its words    *)
(* and of the runs of whitespace (" ") between them.                       *)

In(x, list) == \E i \in 1..Len(list) : list[i] = x

\* dict.get(key, [])
Get(d, key) == IF key \in DOMAIN d THEN d[key] ELSE <<>>

\* nbplot_container.likes_builder
likes_builder_hide_first(attrs, builder_name) ==
    LET hide_from == Get(attrs, "hide-from")
        show_to == Get(attrs, "show-to")
    IN  IF In("all", hide_from) THEN FALSE
        ELSE IF In(builder_name, show_to) THEN TRUE
        ELSE ~In(builder_name, hide_from)
likes_builder(attrs, builder_name) ==
    LET hide_from == Get(attrs, "hide-from")
        show_to == Get(attrs, "show-to")
    IN  IF In(builder_name, show_to) THEN TRUE
        ELSE IF In("all", hide_from) THEN FALSE
        ELSE ~In(builder_name, hide_from)

\* the module's likes_builder(node, builder_name): only nbplot_container has
\* the method
node_likes_builder(node, builder_name) ==
    node.cls # "nbplot_container" \/ likes_builder(node.attrs, builder_name)

\* str.split()
RECURSIVE Split(_)
Split(str) ==
    IF str = <<>> THEN <<>>
    ELSE IF Head(str) = " " THEN Split(Tail(str))
    ELSE <<Head(str)>> \o Split(Tail(str))

\* _proc_builder_opts: the options, with include-source filled in, and the
\* node attributes
_proc_builder_opts_replacing(options, config) ==
    LET opts == IF "include-source" \in DOMAIN options THEN options
                ELSE ("include-source" :> config.nbplot_include_source) @@ options
        base == IF opts["include-source"]
                THEN [k \in {"hide-from", "show-to"} |-> <<>>]
                ELSE ("hide-from" :> <<"all">>) @@ ("show-to" :> <<"doctest">>)
    IN  [options |-> opts,
         node_attrs |-> [k \in {"hide-from", "show-to"} |->
                            IF k \in DOMAIN opts THEN Split(opts[k]) ELSE base[k]]]
_proc_builder_opts(options, config) ==
    LET opts == IF "include-source" \in DOMAIN options THEN options
                ELSE ("include-source" :> config.nbplot_include_source) @@ options
        base == IF opts["include-source"]
                THEN [k \in {"hide-from", "show-to"} |-> <<>>]
                ELSE ("hide-from" :> <<"all">>) @@ ("show-to" :> <<"doctest">>)
    IN  [options |-> opts,
         node_attrs |-> [k \in {"hide-from", "show-to"} |->
                            IF k \in DOMAIN opts THEN base[k] \o Split(opts[k])
                            ELSE base[k]]]

\* list.remove(x): the first x goes
RECURSIVE Remove(_, _)
Remove(list, x) ==
    IF list = <<>> THEN <<>>
    ELSE IF Head(list) = x THEN Tail(list)
    ELSE <<Head(list)>> \o Remove(Tail(list), x)

_hide_from_builder_append_only(attrs, builder_name) ==
    [attrs EXCEPT !["hide-from"] =
        IF ~In(builder_name, @) THEN Append(@, builder_name) ELSE @]
_hide_from_builder(attrs, builder_name) ==
    [attrs EXCEPT
        !["show-to"] = IF In(builder_name, @) THEN Remove(@, builder_name) ELSE @,
        !["hide-from"] = IF ~In(builder_name, @) THEN Append(@, builder_name) ELSE @]

\* rst2nodes: a node of class node_class around the parsed lines; an attribute
\* is set only when its value is not empty; doctest blocks are replaced when
\* the doctest builder is not to see them
Node(cls, lines, attrs, images, dont_doctest) ==
    [cls |-> cls, lines |-> lines, attrs |-> attrs, images |-> images,
     dont_doctest |-> dont_doctest]
rst2nodes(lines, node_class, node_attrs) ==
    LET attrs == [k \in {key \in DOMAIN node_attrs : node_attrs[key] # <<>>}
                     |-> node_attrs[k]]
        node == Node(node_class, lines, attrs, <<>>, FALSE)
    IN  [node EXCEPT !.dont_doctest = ~node_likes_builder(node, "doctest")]

----------------------------------------------------------------------------
(* render_figures (lines 923-1017).  The configuration is a record of the  *)
(* nbplot_* values.  An entry of nbplot_formats is [kind, suffix, dpi]:    *)
(* a string 'suffix', a string 'suffix:dpi', a 2-element tuple, or         *)
(* something else; numeric says whether int() accepts its dpi.             *)

Format(kind, suffix, dpi, numeric) ==
    [kind |-> kind, suffix |-> suffix, dpi |-> dpi, numeric |-> numeric]

\* default_dpi.get(fmt, 80)
DefaultDpi(suffix) == IF suffix \in {"hires.png", "pdf"} THEN 200 ELSE 80

\* lines 956-975, from entry i on: [ok, formats] or [ok, exc]
RECURSIVE ParseFormats(_, _)
ParseFormats(plot_formats, i) ==
    IF i > Len(plot_formats) THEN [ok |-> TRUE, formats |-> <<>>]
    ELSE LET fmt == plot_formats[i]
             rest == ParseFormats(plot_formats, i + 1)
             one == IF fmt.kind = "suffix" THEN <<fmt.suffix, DefaultDpi(fmt.suffix)>>
                    ELSE <<fmt.suffix, fmt.dpi>>
         IN  IF fmt.kind \notin {"suffix", "suffix:dpi", "tuple"}
             THEN [ok |-> FALSE, exc |-> "PlotError"]
             ELSE IF fmt.kind # "suffix" /\ ~fmt.numeric
             THEN [ok |-> FALSE, exc |-> "ValueError"]
             ELSE IF ~rest.ok THEN rest
             ELSE [ok |-> TRUE, formats |-> <<one>> \o rest.formats]

\* abspath(dirname(code_path))
DirName(path) == IF path = "/proj/index.rst" THEN "/proj" ELSE "/proj/doc"

\* _check_wd (lines 824-835): [ok, dir] or [ok, exc]
_check_wd(path) ==
    IF path = "<int>" THEN [ok |-> FALSE, exc |-> "TypeError"]
    ELSE IF path \notin ExistingDirs THEN [ok |-> FALSE, exc |-> "OSError"]
    ELSE [ok |-> TRUE, dir |-> path]

\* "%02d" % j
TwoDigits(j) == IF j < 10 THEN <<0, j>> ELSE <<j \div 10, j % 10>>

\* ImageFile (lines 744-754); a basename is the output base and, after "_",
\* the digits of the figure's index, if any
ImageFile(base, index, path) ==
    [basename |-> [base |-> base, index |-> index], dirname |-> path, formats |-> <<>>]

\* plt.close('all')
CloseNothing(w) == w
CloseAll(w) == [w EXCEPT !.figs = <<>>]

\* lines 1002-1017: the image of each live figure, saved in every format.
\* [ok, images] or [ok, exc], exc when the write fails
HarvestAllNumbered(fig_managers, formats, output_base, output_dir, disk_ok) ==
    IF fig_managers # <<>> /\ formats # <<>> /\ ~disk_ok
    THEN [ok |-> FALSE, exc |-> "PlotError"]
    ELSE [ok |-> TRUE,
          images |-> [j \in 1..Len(fig_managers) |->
             [ImageFile(output_base, TwoDigits(j - 1), output_dir)
              EXCEPT !.formats = [k \in 1..Len(formats) |-> formats[k][1]]]]]
Harvest(fig_managers, formats, output_base, output_dir, disk_ok) ==
    IF fig_managers # <<>> /\ formats # <<>> /\ ~disk_ok
    THEN [ok |-> FALSE, exc |-> "PlotError"]
    ELSE [ok |-> TRUE,
          images |-> [j \in 1..Len(fig_managers) |->
             [ImageFile(output_base,
                        IF Len(fig_managers) = 1 THEN <<>> ELSE TwoDigits(j - 1),
                        output_dir)
              EXCEPT !.formats = [k \in 1..Len(formats) |-> formats[k][1]]]]]

\* The result of render_figures: ret is "return" or "raise" (of exc); pc and w
\* are plot_context and the world as the call left them; ran says run_code was
\* called, at_exec is the namespace and figs_at_exec the figures it was called
\* with, and rc its result.
Rendered(ret, exc, images, pc, w, ran, at_exec, figs_at_exec, r) ==
    [ret |-> ret, exc |-> exc, images |-> images, pc |-> pc, w |-> w, ran |-> ran,
     at_exec |-> at_exec, figs_at_exec |-> figs_at_exec, rc |-> r]

\* lines 980-984
ContextResetKeepsNamespace(context_reset, pc, w) ==
    IF context_reset THEN [pc |-> pc, w |-> CloseAll(w)] ELSE [pc |-> pc, w |-> w]
ContextReset(context_reset, pc, w) ==
    IF context_reset THEN [pc |-> EmptyNs, w |-> CloseAll(w)] ELSE [pc |-> pc, w |-> w]

render_figures(code, code_path, output_dir, output_base, config, context, function_name, context_reset, close_figs, raises, pc, w, disk_ok) ==
    Let(ParseFormats(config.nbplot_formats, 1),
    LAMBDA f :
    IF ~f.ok THEN Rendered("raise", f.exc, <<>>, pc, w, FALSE, EmptyNs, <<>>, NoCall)
    ELSE
    Let(ContextReset(context_reset, pc, w),
    LAMBDA reset :
    LET ns == IF context THEN reset.pc ELSE EmptyNs
        close == ~context \/ close_figs
        wd == IF config.nbplot_working_directory # "None"
              THEN _check_wd(config.nbplot_working_directory)
              ELSE IF code_path # "None"
              THEN [ok |-> TRUE, dir |-> DirName(code_path)]
              ELSE [ok |-> TRUE, dir |-> "None"]
    IN  IF ~wd.ok
        THEN Rendered("raise", wd.exc, <<>>, reset.pc, reset.w, FALSE, EmptyNs, <<>>,
                      NoCall)
        ELSE
        Let(IF close THEN CloseAll(reset.w) ELSE reset.w,
        LAMBDA w1 :
        Let(run_code(code, code_path, <<ns>>, function_name, wd.dir,
                     config.nbplot_pre_code, raises, w1),
        LAMBDA r :
        LET pc1 == IF context THEN r.ns ELSE reset.pc
        IN  IF r.ret = "raise"
            THEN Rendered("raise", r.exc, <<>>, pc1, r.w, TRUE, ns, w1.figs, r)
            ELSE
            Let(Harvest(r.w.figs, f.formats, output_base, output_dir, disk_ok),
            LAMBDA h :
            IF ~h.ok
            THEN Rendered("raise", h.exc, <<>>, pc1, r.w, TRUE, ns, w1.figs, r)
            ELSE Rendered("return", "", h.images, pc1, r.w, TRUE, ns, w1.figs, r))))))

----------------------------------------------------------------------------
(* NBPlotDirective.run (lines 407-468, 489-618).  The Sphinx environment   *)
(* holds docname, nbplot_reset_markers, nbplot_flag_namespaces; the        *)
(* document being read holds its source and _plot_counter.                 *)

\* lines 509-514: '%s-%d' % (base, counter), dots replaced by dashes
OutputBaseUncounted(source_file_name, counter) ==
    [stem |-> IF source_file_name = "/proj/index.rst" THEN "index" ELSE "a-b", n |-> 1]
OutputBase(source_file_name, counter) ==
    [stem |-> IF source_file_name = "/proj/index.rst" THEN "index" ELSE "a-b",
     n |-> counter]

\* lines 521-533 and 539: the directories below the doctree and output roots
SourceRelDir(source_file_name) ==
    IF source_file_name = "/proj/index.rst" THEN "" ELSE "doc"
BuildDir(source_file_name) == <<"build", "nbplot_directive", SourceRelDir(source_file_name)>>
DestDir(source_file_name) == <<"out", SourceRelDir(source_file_name)>>

\* lines 498-503: [context_reset, markers]
ResetMarkerNeverSet(markers, doc) ==
    IF markers[doc] THEN [context_reset |-> FALSE, markers |-> markers]
    ELSE [context_reset |-> TRUE, markers |-> markers]
ResetMarker(markers, doc) ==
    IF markers[doc] THEN [context_reset |-> FALSE, markers |-> markers]
    ELSE [context_reset |-> TRUE, markers |-> [markers EXCEPT ![doc] = TRUE]]

\* line 504
CloseFigsAlways(options) == TRUE
CloseFigs(options) == "keepfigs" \notin DOMAIN options

\* eval(self.options['raises']) (line 517): [ok, cls] or [ok, exc]
ExceptionNames ==
    {"BaseException", "Exception", "SystemExit", "KeyboardInterrupt", "ValueError",
     "KeyError", "NameError", "TypeError", "OSError", "SyntaxError"}
EvalRaises(options) ==
    IF "raises" \notin DOMAIN options THEN [ok |-> TRUE, cls |-> "None"]
    ELSE IF options["raises"] \in ExceptionNames
    THEN [ok |-> TRUE, cls |-> options["raises"]]
    ELSE [ok |-> FALSE, exc |-> "NameError"]

_contains_doctest_guessing(options, multi_str) == contains_doctest(multi_str)
_contains_doctest(options, multi_str) ==
    IF "format" \in DOMAIN options THEN options["format"] # "python"
    ELSE contains_doctest(multi_str)

\* [''] + [row.rstrip() for row in text.split('\n')]
RStripRows(text) ==
    <<Blank>> \o [i \in 1..Len(text) |-> IF text[i].t = "blank" THEN Blank ELSE text[i]]

\* ['.. code-block:: python'] + ['    ' + line for line in lines]
CodeBlock(lines) ==
    <<Line(0, "prose", "code-block", "python", "")>>
        \o [i \in 1..Len(lines) |-> Indent(lines[i].ind + 4, lines[i])]

\* _build_epilogue: the node that links the images shown
_build_epilogue(images, options) ==
    LET images_to_show == IF "nofigs" \in DOMAIN options THEN <<>> ELSE images
    IN  [rst2nodes(<<>>, "nbplot_epilogue", EmptyNs) EXCEPT !.images =
            [j \in 1..Len(images_to_show) |-> images_to_show[j].basename]]

\* ImageFile.filenames and _copy_image_files: the files copied, each
\* <<directory, basename, format>>
RECURSIVE FileNames(_)
FileNames(images) ==
    IF images = <<>> THEN <<>>
    ELSE LET img == Head(images)
         IN  [k \in 1..Len(img.formats) |-> <<img.dirname, img.basename, img.formats[k]>>]
             \o FileNames(Tail(images))
_copy_image_files(images, dest_dir) ==
    SelectSeq(FileNames(images), LAMBDA fn : fn[1] # dest_dir)

\* lines 578-588: errors, the system message of a PlotError
NoDiagnostics(rf, to_run) == <<>>
Diagnostics(rf, to_run) ==
    IF rf.ret = "return" THEN <<>>
    ELSE <<Node("system_message", to_run, EmptyNs, <<>>, FALSE)>>

\* The result of run: ret is "return" (of nodes) or "raise" (of exc); options
\* are self.options as run leaves them and proc_attrs the attributes line 496
\* computed; to_render and to_run are the selected texts (NoText before line
\* 563); rf is the result of render_figures (NoCall when it was not called);
\* markers, counter, pc and w are the environment's markers, the document's
\* counter, plot_context and the world as run leaves them.
Ran(ret, exc, nodes, images, copied, options, proc_attrs, context_reset, close_figs, output_base, to_render, to_run, rf, markers, counter, pc, w) ==
    [ret |-> ret, exc |-> exc, nodes |-> nodes, images |-> images, copied |-> copied,
     options |-> options, proc_attrs |-> proc_attrs, context_reset |-> context_reset,
     close_figs |-> close_figs, output_base |-> output_base, to_render |-> to_render,
     to_run |-> to_run, rf |-> rf, markers |-> markers, counter |-> counter,
     pc |-> pc, w |-> w]

run(options, content, config, doc, markers, flag_namespaces, counter0, pc, w, disk_ok) ==
    Let(_proc_builder_opts(options, config),
    LAMBDA b :
    LET opts == b.options
        m == ResetMarker(markers, doc)
        close_figs == CloseFigs(opts)
        counter == counter0 + 1
        source_file_name == SourceOf(doc)
        output_base == OutputBase(source_file_name, counter)
        raises == EvalRaises(opts)
        build_dir == BuildDir(source_file_name)
        dest_dir == DestDir(source_file_name)
    IN  IF ~raises.ok
        THEN Ran("raise", raises.exc, <<>>, <<>>, <<>>, opts, b.node_attrs,
                 m.context_reset, close_figs, output_base, NoText, NoText, NoCall,
                 m.markers, counter, pc, w)
        ELSE
        Let(_select_parts(content, opts, flag_namespaces[doc]),
        LAMBDA s :
        IF ~s.ok
        THEN Ran("raise", s.exc, <<>>, <<>>, <<>>, opts, b.node_attrs,
                 m.context_reset, close_figs, output_base, NoText, NoText, NoCall,
                 m.markers, counter, pc, w)
        ELSE
        Let(render_figures(s.to_run, source_file_name, build_dir, output_base,
                           config, TRUE, "None", m.context_reset, close_figs,
                           raises.cls, pc, w, disk_ok),
        LAMBDA rf :
        LET to_render == s.to_render
            to_run == s.to_run
        IN  IF rf.ret = "raise" /\ rf.exc # "PlotError"
            THEN Ran("raise", rf.exc, <<>>, <<>>, <<>>, opts, b.node_attrs,
                     m.context_reset, close_figs, output_base, to_render, to_run,
                     rf, m.markers, counter, rf.pc, rf.w)
            ELSE
            LET images == IF rf.ret = "return" THEN rf.images ELSE <<>>
                errors == Diagnostics(rf, to_run)
                lines0 == RStripRows(to_render)
                lines == IF ~_contains_doctest(opts, to_render)
                         THEN CodeBlock(lines0) ELSE lines0
                node_attrs == IF to_render # to_run
                              THEN _hide_from_builder(b.node_attrs, "doctest")
                              ELSE b.node_attrs
                rendered_nodes == <<rst2nodes(lines, "nbplot_container", node_attrs)>>
                epilogue == <<_build_epilogue(images, opts)>>
                ret == rendered_nodes \o epilogue \o errors
                copied == _copy_image_files(images, dest_dir)
                ran_nodes ==
                    IF to_render # to_run /\ _contains_doctest(opts, to_run)
                    THEN <<rst2nodes(RStripRows(to_run), "nbplot_container",
                                     ("hide-from" :> <<"all">>)
                                         @@ ("show-to" :> <<"doctest">>))>>
                    ELSE <<>>
            IN  Ran("return", "", ret \o ran_nodes, images, copied, opts, b.node_attrs,
                    m.context_reset, close_figs, output_base, to_render, to_run, rf,
                    m.markers, counter, rf.pc, rf.w))))

----------------------------------------------------------------------------
(* The directive and the event handlers as steps of sphinx-build *)

\* the configuration values setup registers (lines 1088-1095), with the
\* include-source default given
Config(include_source) ==
    [nbplot_pre_code |-> <<Py("bind", "np"), Py("bind", "plt"), Blank>>,
     nbplot_include_source |-> include_source,
     nbplot_formats |-> <<Format("suffix", "png", 0, TRUE),
                          Format("suffix", "hires.png", 0, TRUE),
                          Format("suffix", "pdf", 0, TRUE)>>,
     nbplot_working_directory |-> "None",
     nbplot_flags |-> DefaultFlags]

\* the configuration of a project whose conf.py sets none of these values
DefaultConfig == Config(TRUE)

\* most nbplot directives in a document
MaxDirectives == 3

\* the names of a namespace that code bound (run_code itself binds print and
\* __name__)
CodeNames(ns) == {n \in DOMAIN ns : ns[n].src # "run_code"}

\* the names, below the build and the destination directory, of the image
\* files: '%s.%s' % (basename, format)
ImageNames(images) ==
    {<<FileNames(images)[k][2], FileNames(images)[k][3]>> : k \in DOMAIN FileNames(images)}

\* An nbplot directive of the document being read runs (lines 489-618).
\* disk_ok says whether image files can be written.
NBPlotDirectiveRun(options, content, config, disk_ok) ==
    /\ docname \in Docs
    /\ plot_counter < MaxDirectives
    /\ Len(figs) < MaxFigs
    /\ \E r \in {run(options, content, config, docname, nbplot_reset_markers,
                     [d \in Docs |-> Deref(nbplot_flag_namespaces[d], nbplot_flags)],
                     plot_counter, plot_context, World,
                     disk_ok)} :
          LET executed == r.rf # NoCall /\ r.rf.ran
          IN  /\ cwd' = r.w.cwd
              /\ sys_path' = r.w.path
              /\ sys_argv' = r.w.argv
              /\ sys_stdout' = r.w.stdout
              /\ figs' = r.w.figs
              /\ plot_context' = r.pc
              /\ nbplot_reset_markers' = r.markers
              /\ plot_counter' = r.counter
              /\ directive' =
                    [called |-> TRUE, options |-> options, content |-> content,
                     config |-> config, res |-> r, executed |-> executed,
                     flags |-> Deref(nbplot_flag_namespaces[docname], nbplot_flags),
                     assigned |-> flag_assigned,
                     figs_before |-> figs,
                     overwrites |-> doc_out.files \cap ImageNames(r.images),
                     after_failure |-> /\ directive.called
                                       /\ directive.res.ret = "return"
                                       /\ directive.res.rf.ret = "raise",
                     stale_at_exec |->
                        IF executed THEN stale \cap DOMAIN r.rf.at_exec ELSE {},
                     missing_at_exec |->
                        IF executed THEN doc_bound \ DOMAIN r.rf.at_exec ELSE {}]
              /\ stale' = (stale \cap DOMAIN r.pc) \ r.w.bound
              /\ doc_bound' = doc_bound \cup r.w.bound
              /\ doc_out' = [bases |-> Append(doc_out.bases, r.output_base),
                             files |-> doc_out.files \cup ImageNames(r.images),
                             raised |-> doc_out.raised \/ r.ret = "raise"]
    /\ UNCHANGED <<docname, nbplot_flag_namespaces, nbplot_flags, flag_assigned,
                   rc, sel, pp, visit>>

\* env-purge-doc for a document that is not being read (lines 1033-1037)
do_purge_doc(doc) ==
    /\ doc # docname
    /\ nbplot_reset_markers' = [nbplot_reset_markers EXCEPT ![doc] = FALSE]
    /\ nbplot_flag_namespaces' =
          [nbplot_flag_namespaces EXCEPT ![doc] = copy(nbplot_flags)]
    /\ UNCHANGED <<procVars, docname, nbplot_flags, plot_counter, rc, sel, pp, directive,
                   visit, histVars>>

\* Sphinx begins to read a document: it emits env-purge-doc for it, makes it
\* env.docname and parses it into a new document, which has no _plot_counter
read_doc(doc) ==
    /\ nbplot_reset_markers' = [nbplot_reset_markers EXCEPT ![doc] = FALSE]
    /\ nbplot_flag_namespaces' =
          [nbplot_flag_namespaces EXCEPT ![doc] = copy(nbplot_flags)]
    /\ docname' = doc
    /\ plot_counter' = 0
    /\ directive' = NoCall
    /\ stale' = CodeNames(plot_context)
    /\ doc_bound' = {}
    /\ flag_assigned' = EmptyNs
    /\ doc_out' = NoOutput
    /\ UNCHANGED <<procVars, nbplot_flags, rc, sel, pp, visit>>

\* a literal as nbplot-flags content writes it
LiteralValue(v) ==
    CASE v = "0" -> PyInt(0)
      [] v = "1" -> PyInt(1)
      [] v = "2" -> PyInt(2)
      [] OTHER -> PyNone

\* the statements from line i on, with local_ns as their locals: the locals,
\* the assignments made, and the exception that ended it ("" for none)
RECURSIVE ExecLocals(_, _, _, _)
ExecLocals(text, i, local_ns, assigned) ==
    IF i > Len(text) THEN [ns |-> local_ns, assigned |-> assigned, exc |-> ""]
    ELSE IF text[i].t # "py" THEN ExecLocals(text, i + 1, local_ns, assigned)
    ELSE IF text[i].op = "bind"
    THEN ExecLocals(text, i + 1, Bind(local_ns, text[i].a, LiteralValue(text[i].v)),
                    Bind(assigned, text[i].a, LiteralValue(text[i].v)))
    ELSE IF text[i].op = "raise"
    THEN [ns |-> local_ns, assigned |-> assigned, exc |-> text[i].a]
    ELSE ExecLocals(text, i + 1, local_ns, assigned)

\* NBPlotFlags.run (lines 218-224): the namespace as the directive leaves it
NBPlotFlags_run(content, local_ns) ==
    IF ~Compiles(Join(content))
    THEN [ns |-> local_ns, assigned |-> EmptyNs, exc |-> "SyntaxError"]
    ELSE ExecLocals(Join(content), 1, local_ns, EmptyNs)

\* An nbplot-flags directive of the document being read runs.  Its
\* assignments go to the dict object the environment holds for the document.
NBPlotFlagsRun(content) ==
    /\ docname \in Docs
    /\ \E r \in {NBPlotFlags_run(content,
                                 Deref(nbplot_flag_namespaces[docname], nbplot_flags))} :
          /\ IF nbplot_flag_namespaces[docname].own
             THEN /\ nbplot_flag_namespaces' =
                        [nbplot_flag_namespaces EXCEPT ![docname].ns = r.ns]
                  /\ UNCHANGED nbplot_flags
             ELSE /\ nbplot_flags' = r.ns
                  /\ UNCHANGED nbplot_flag_namespaces
          /\ flag_assigned' = r.assigned @@ flag_assigned
    /\ UNCHANGED <<procVars, docname, nbplot_reset_markers, plot_counter, rc, sel, pp,
                   directive, visit, stale, doc_bound, doc_out>>

\* builders that visit nodes (line 1074)
visiting_builders == {"html", "latex", "text", "texinfo"}

\* a visiting builder comes to node k of the directive's nodes (lines
\* 1040-1047): skip says SkipNode was raised
checked_visit(builder_name, k) ==
    /\ directive.called
    /\ k \in 1..Len(directive.res.nodes)
    /\ directive.res.nodes[k].cls \in {"nbplot_container", "nbplot_epilogue"}
    /\ visit' = [called |-> TRUE, builder_name |-> builder_name, k |-> k,
                 skip |-> ~node_likes_builder(directive.res.nodes[k], builder_name)]
    /\ UNCHANGED <<procVars, envVars, rc, sel, pp, directive, histVars>>

----------------------------------------------------------------------------
(* Reading documents *)

DocContents ==
    { <<Py("bind", "x")>>,
      <<Py("use", "x")>>,
      <<Py("fig", ""), Py("bind", "y")>>,
      <<Py("bind", "y"), Py("raise", "ValueError")>>,
      <<Py("raise", "KeyboardInterrupt")>> }
\* no option; keepfigs; an expected exception; a name that is not an exception
\* class; a part that does not exist
DocOptions ==
    { EmptyNs,
      ("keepfigs" :> TRUE),
      ("raises" :> "ValueError"),
      ("raises" :> "NoSuchError"),
      ("render-parts" :> Lit(PyInt(3))) }
DocDirectives ==
    [options : DocOptions, content : DocContents, disk_ok : {TRUE}]
    \cup [options : {EmptyNs, ("keepfigs" :> TRUE)},
          content : {<<Py("fig", ""), Py("bind", "y")>>}, disk_ok : {FALSE}]

Init ==
    /\ InitProcess
    /\ InitEnv
    /\ rc = NoCall
    /\ sel = NoCall
    /\ pp = NoCall

NBPlot == \E d \in DocDirectives :
             NBPlotDirectiveRun(d.options, d.content, DefaultConfig, d.disk_ok)
ReadDoc == \E doc \in Docs : read_doc(doc)
PurgeDoc == \E doc \in Docs : do_purge_doc(doc)

Next == ReadDoc \/ PurgeDoc \/ NBPlot

Spec == Init /\ [][Next]_vars

----------------------------------------------------------------------------
(* Builder visibility of a directive's nodes *)

\* most words in a hide-from or show-to option
MaxWords == 2

VisWords == {"html", "doctest", "all"}

\* the option's string: the words, with whitespace between them
RECURSIVE Spaced(_)
Spaced(words) ==
    IF Len(words) <= 1 THEN words
    ELSE <<Head(words), " ">> \o Spaced(Tail(words))

VisStrings ==
    {Spaced(ws) : ws \in BoundedSeq(VisWords, MaxWords)}
        \cup {<<" ", "html", " ">>}

\* two parts, in doctest format
VisContent ==
    <<Doctest("bind", "x"), Blank, PartSep, Blank, Doctest("fig", "")>>

OptionSets(name, values) == {EmptyNs} \cup {(name :> v) : v \in values}

VisOptions ==
    {a @@ b @@ c @@ d :
        a \in OptionSets("include-source", BOOLEAN),
        b \in OptionSets("hide-from", VisStrings),
        c \in OptionSets("show-to", VisStrings),
        d \in OptionSets("render-parts", {Lit(PyInt(1))})}

\* the first directive of index.rst is about to run
InitVis ==
    /\ InitProcess
    /\ nbplot_reset_markers = [d \in Docs |-> FALSE]
    /\ nbplot_flag_namespaces =
          [d \in Docs |-> IF d = "index" THEN copy(DefaultFlags) ELSE copy(EmptyNs)]
    /\ nbplot_flags = DefaultFlags
    /\ flag_assigned = EmptyNs
    /\ docname = "index"
    /\ plot_counter = 0
    /\ rc = NoCall
    /\ sel = NoCall
    /\ pp = NoCall
    /\ visit = NoCall
    /\ stale = {}
    /\ doc_bound = {}
    /\ doc_out = NoOutput
    /\ directive \in [called : {FALSE}, options : VisOptions, content : {VisContent},
                      config : {Config(TRUE), Config(FALSE)}]

VisRun ==
    /\ ~directive.called
    /\ NBPlotDirectiveRun(directive.options, directive.content, directive.config, TRUE)

VisVisit ==
    /\ ~visit.called
    /\ \E builder_name \in visiting_builders, k \in 1..4 : checked_visit(builder_name, k)

NextVis == VisRun \/ VisVisit

SpecVis == InitVis /\ [][NextVis]_vars

\* the builders asked about: those that visit, and doctest
BuilderNames == visiting_builders \cup {"doctest"}

\* the answer a node with these lists is to give builder b
Visible(hide_from, show_to, b) ==
    IF In(b, show_to) THEN TRUE
    ELSE IF In("all", hide_from) THEN FALSE
    ELSE IF In(b, hide_from) THEN FALSE
    ELSE TRUE

\* C6: a node with hide-from and show-to lists answers builder b: true if b is
\* in show-to; otherwise false if 'all' is in hide-from; otherwise false if b is
\* in hide-from; otherwise true.  So a visiting builder skips the node exactly
\* when the answer is false, and the node's doctest blocks are replaced exactly
\* when the answer to 'doctest' is false.
LikesBuilderRule ==
    /\ visit.called =>
          LET node == directive.res.nodes[visit.k]
          IN  node.cls = "nbplot_container" =>
                 (~visit.skip) = Visible(Get(node.attrs, "hide-from"),
                                         Get(node.attrs, "show-to"), visit.builder_name)
    /\ directive.called =>
          \A k \in 1..Len(directive.res.nodes) :
              LET node == directive.res.nodes[k]
              IN  node.cls = "nbplot_container" =>
                     (~node.dont_doctest) = Visible(Get(node.attrs, "hide-from"),
                                                    Get(node.attrs, "show-to"), "doctest")

\* html is in show-to and 'all' in hide-from, and the html builder is not made
\* to skip the node
LikesBuilderWitness ==
    /\ visit.called /\ visit.builder_name = "html" /\ ~visit.skip
    /\ directive.res.nodes[visit.k].cls = "nbplot_container"
    /\ In("html", Get(directive.res.nodes[visit.k].attrs, "show-to"))
    /\ In("all", Get(directive.res.nodes[visit.k].attrs, "hide-from"))

\* the include-source option, or the configuration's value when it is absent
EffectiveIncludeSource ==
    IF "include-source" \in DOMAIN directive.options
    THEN directive.options["include-source"]
    ELSE directive.config.nbplot_include_source

\* C7 as stated: when the effective include-source is false, the attributes
\* _proc_builder_opts computes answer true to 'doctest' and false to every
\* other builder, whatever the hide-from and show-to options.
SourceHiddenOriginal ==
    (directive.called /\ ~EffectiveIncludeSource) =>
        \A b \in BuilderNames :
            likes_builder(directive.res.proc_attrs, b) = (b = "doctest")

\* C7 amended: when the effective include-source is false, the attributes
\* _proc_builder_opts computes answer true to 'doctest' and to every builder
\* the show-to option names, and false to every other builder.
SourceHiddenAmended ==
    (directive.called /\ ~EffectiveIncludeSource) =>
        \A b \in BuilderNames :
            likes_builder(directive.res.proc_attrs, b)
                = (b = "doctest" \/ In(b, Split(Get(directive.options, "show-to"))))

\* include-source is false, both options are given, and show-to names html
SourceHiddenWitness ==
    /\ directive.called /\ ~EffectiveIncludeSource
    /\ "hide-from" \in DOMAIN directive.options
    /\ In("html", Split(Get(directive.options, "show-to")))
    /\ likes_builder(directive.res.proc_attrs, "html")
    /\ ~likes_builder(directive.res.proc_attrs, "latex")

\* C8: whenever the rendered text differs from the executed text, the rendered
\* node answers false to the 'doctest' builder on its final attributes.
RenderedHiddenFromDoctest ==
    (directive.called /\ directive.res.ret = "return"
        /\ directive.res.to_render # directive.res.to_run) =>
        /\ ~likes_builder(directive.res.nodes[1].attrs, "doctest")
        /\ directive.res.nodes[1].dont_doctest

----------------------------------------------------------------------------
(* The namespace across directives and documents *)

\* C2: whenever a directive's code is executed, the namespace it is executed
\* in holds no name that code bound before the last purge of the document
\* being read.
NoStaleBindingAtExec ==
    (directive.called /\ directive.executed) => directive.stale_at_exec = {}

\* C3: between two purges of a document only its first directive asks for a
\* context reset, and every name its executed code has bound is still bound
\* when a later directive of the document executes.
ResetOnlyByFirst ==
    /\ directive.called =>
          /\ directive.res.context_reset => directive.res.counter = 1
          /\ directive.missing_at_exec = {}
    /\ doc_bound \subseteq DOMAIN plot_context

\* a later directive of the document used, and did not bind, the name x that
\* an earlier one bound
ResetOnlyByFirstWitness ==
    /\ directive.called /\ directive.executed /\ directive.res.counter >= 2
    /\ directive.content = <<Py("use", "x")>> /\ directive.res.ret = "return"
    /\ ~directive.res.context_reset
    /\ "x" \in doc_bound /\ "x" \notin directive.res.w.bound
    /\ stale = {}

----------------------------------------------------------------------------
(* Flags across documents *)

FlagsContents ==
    { <<Assign("slow", "1")>>,
      <<Assign("fast", "1"), Py("raise", "ValueError"), Assign("slow", "1")>>,
      <<Prose, Assign("slow", "1")>> }

\* two parts; which is rendered or run may depend on a flag
FlagsDirectives ==
    [content : {<<Py("bind", "x"), Blank, PartSep, Blank, Py("bind", "y")>>},
     options : {EmptyNs, ("render-parts" :> Name("slow")), ("run-parts" :> Name("fast"))}]

FlagsNBPlot == \E d \in FlagsDirectives :
                  NBPlotDirectiveRun(d.options, d.content, DefaultConfig, TRUE)
FlagsRun == \E content \in FlagsContents : NBPlotFlagsRun(content)

NextFlags == ReadDoc \/ PurgeDoc \/ FlagsRun \/ FlagsNBPlot

SpecFlags == Init /\ [][NextFlags]_vars

\* C13: the flag namespace a directive of the document being read reads is the
\* configured nbplot_flags overlaid with what the document's nbplot-flags
\* directives assigned since its last purge (so nothing assigned in another
\* document or before the purge), and no directive changes the configured
\* mapping.
FlagsPerDocument ==
    /\ docname \in Docs =>
          Deref(nbplot_flag_namespaces[docname], nbplot_flags)
              = flag_assigned @@ DefaultFlags
    /\ directive.called => directive.flags = directive.assigned @@ DefaultFlags
    /\ nbplot_flags = DefaultFlags

\* the other document assigned slow = 1; this one assigned only fast, and its
\* directive read slow as the default 0 and rendered part 0
FlagsPerDocumentWitness ==
    /\ directive.called /\ docname = "index"
    /\ directive.options = ("render-parts" :> Name("slow"))
    /\ directive.res.ret = "return"
    /\ directive.res.to_render = <<Py("bind", "x")>>
    /\ DOMAIN directive.assigned = {"fast"}
    /\ Deref(nbplot_flag_namespaces["doc/a.b"], nbplot_flags)
          = ("slow" :> PyInt(1))

----------------------------------------------------------------------------
(* Figures across the directives of a document *)

\* code that makes one figure, two figures, none; code that fails after making
\* a figure; code that is interrupted
FigContents ==
    { <<Py("fig", "")>>,
      <<Py("fig", ""), Py("fig", "")>>,
      <<Py("bind", "y")>>,
      <<Py("fig", ""), Py("raise", "ValueError")>>,
      <<Py("raise", "KeyboardInterrupt")>> }
FigDirectives ==
    [options : {EmptyNs, ("keepfigs" :> TRUE)}, content : FigContents, disk_ok : BOOLEAN]

FigsNBPlot == \E d \in FigDirectives :
                 NBPlotDirectiveRun(d.options, d.content, DefaultConfig, d.disk_ok)

NextFigs == ReadDoc \/ PurgeDoc \/ FigsNBPlot

SpecFigs == Init /\ [][NextFigs]_vars

\* the directive's call of render_figures returned
Harvested == directive.called /\ directive.res.rf # NoCall /\ directive.res.rf.ret = "return"

\* the figures the executed code made: those live after it that were not live
\* when it began
Created(rf) == Len(rf.w.figs) - Len(rf.figs_at_exec)

BaseNames(images) == [j \in 1..Len(images) |-> images[j].basename]

\* output_base for one figure, output_base_00, output_base_01, ... for more
Named(output_base, n) ==
    [j \in 1..n |-> [base |-> output_base,
                      index |-> IF n = 1 THEN <<>> ELSE TwoDigits(j - 1)]]

\* C14 as stated: the image descriptors render_figures returns are named
\* after the number of figures the executed code created: output_base for
\* one, output_base_00, output_base_01, ... for two or more, none for none.
FigureNamingOriginal ==
    Harvested =>
        BaseNames(directive.res.rf.images)
            = Named(directive.res.output_base, Created(directive.res.rf))

\* C14 amended: the image descriptors render_figures returns are named after
\* the number of figures live when the code has run, which are the figures
\* live when the code began followed by those it created; when no figure was
\* live as the code began (always so unless keepfigs is set) that is the
\* number of figures the code created.
FigureNamingAmended ==
    Harvested =>
        LET rf == directive.res.rf
        IN  /\ BaseNames(rf.images) = Named(directive.res.output_base, Len(rf.w.figs))
            /\ SubSeq(rf.w.figs, 1, Len(rf.figs_at_exec)) = rf.figs_at_exec
            /\ rf.figs_at_exec = <<>> =>
                  BaseNames(rf.images) = Named(directive.res.output_base, Created(rf))
            /\ directive.res.close_figs => rf.figs_at_exec = <<>>

\* code that creates two figures, with none live before, gives output_base_00
\* and output_base_01
FigureNamingWitness ==
    /\ Harvested
    /\ directive.content = <<Py("fig", ""), Py("fig", "")>>
    /\ directive.res.rf.figs_at_exec = <<>>
    /\ BaseNames(directive.res.rf.images)
          = << [base |-> directive.res.output_base, index |-> <<0, 0>>],
               [base |-> directive.res.output_base, index |-> <<0, 1>>] >>

\* the directive is not the first of its document, has keepfigs, and its code
\* ran to the harvest (lines 1002-1003)
KeptToHarvest ==
    /\ directive.called
    /\ directive.res.counter >= 2
    /\ "keepfigs" \in DOMAIN directive.options
    /\ directive.res.rf # NoCall
    /\ directive.res.rf.ran
    /\ directive.res.rf.rc.ret = "return"

\* the figures live before the directive are the first of those live at its
\* harvest
StillLive ==
    LET rf == directive.res.rf
        n == Len(directive.figs_before)
    IN  /\ rf.figs_at_exec = directive.figs_before
        /\ n <= Len(rf.w.figs)
        /\ SubSeq(rf.w.figs, 1, n) = directive.figs_before

\* the directive has an image descriptor for each figure live before it
Included == Len(directive.res.images) >= Len(directive.figs_before)

\* C15 as stated: when a directive that is not the first of its document has
\* keepfigs, every figure the directive before it left live is still live at
\* its harvest and is in its image descriptors.
KeepFigsOriginal == KeptToHarvest => StillLive /\ Included

\* C15 amended: when a directive that is not the first of its document has
\* keepfigs, every figure the directive before it left live is still live at
\* its harvest; it is in the directive's image descriptors when the harvest
\* wrote every image, and the directive has no image descriptor when a write
\* failed.
KeepFigsAmended ==
    KeptToHarvest =>
        /\ StillLive
        /\ directive.res.rf.ret = "return" => Included
        /\ directive.res.rf.ret = "raise" =>
              directive.res.rf.exc = "PlotError" /\ directive.res.images = <<>>

\* a figure of the directive before is harvested with the one the second made
KeepFigsWitness ==
    /\ KeptToHarvest
    /\ directive.figs_before # <<>>
    /\ directive.res.rf.ret = "return"
    /\ Len(directive.res.images) = Len(directive.figs_before) + 1
    /\ directive.res.images[1].basename.index = <<0, 0>>

\* render_figures was called and raised exc
RenderRaised(exc) ==
    directive.called /\ directive.res.rf # NoCall /\ directive.res.rf.ret = "raise"
        /\ directive.res.rf.exc = exc

\* the system messages among the nodes
SystemMessages(nodes) == {k \in 1..Len(nodes) : nodes[k].cls = "system_message"}

\* C16: when render_figures raises PlotError, run returns the rendered node,
\* an epilogue of no image and one system message, in this order, and copies
\* no image file; the document's counter and reset marker are as after any
\* directive, so that the directives after it are processed as usual.  When
\* anything else is raised in run, before or in render_figures, run raises it.
PlotErrorDiagnosed ==
    /\ RenderRaised("PlotError") =>
          LET res == directive.res
          IN  /\ res.ret = "return"
              /\ Len(res.nodes) >= 3
              /\ res.nodes[1].cls = "nbplot_container"
              /\ res.nodes[1].lines = (IF _contains_doctest(res.options, res.to_render)
                                       THEN RStripRows(res.to_render)
                                       ELSE CodeBlock(RStripRows(res.to_render)))
              /\ res.nodes[2].cls = "nbplot_epilogue"
              /\ res.nodes[2].images = <<>>
              /\ SystemMessages(res.nodes) = {3}
              /\ res.images = <<>>
              /\ res.copied = <<>>
              /\ plot_counter = res.counter
              /\ nbplot_reset_markers[docname]
    /\ \A exc \in ExceptionNames :
          RenderRaised(exc) => directive.res.ret = "raise" /\ directive.res.exc = exc
    /\ directive.called /\ directive.res.rf = NoCall => directive.res.ret = "raise"
    /\ directive.called /\ directive.res.ret = "return" /\ directive.res.rf.ret = "return"
          => SystemMessages(directive.res.nodes) = {}

\* a directive whose image cannot be written, after one whose code failed
PlotErrorWitness ==
    /\ RenderRaised("PlotError")
    /\ directive.after_failure
    /\ directive.res.rf.rc.ret = "return"
    /\ directive.res.counter = 2
    /\ Len(directive.res.nodes) = 3

\* C17: whenever a directive's code is executed, the configured
\* nbplot_pre_code was executed before it in the same call of run_code, in
\* the namespace the code runs in.
PreCodeBeforeEachPlot ==
    directive.called /\ directive.executed /\ directive.res.rf.rc.code # "-"
        => directive.res.rf.rc.pre # "-"

\* the statements of a text that make a figure
FigLines(text) == {i \in 1..Len(text) : text[i].t = "py" /\ text[i].op = "fig"}

\* C19: a directive without keepfigs whose code ran began it with no live
\* figure, whatever the directives before it left, also one that failed; each
\* figure live after it was made by code of its document, and when its
\* figures are harvested it has one image descriptor for each statement of
\* its executed text that makes a figure.
OwnFiguresOnly ==
    directive.called /\ "keepfigs" \notin DOMAIN directive.options /\ directive.executed
        => LET rf == directive.res.rf
           IN  /\ directive.res.close_figs
               /\ rf.figs_at_exec = <<>>
               /\ \A j \in DOMAIN rf.w.figs : rf.w.figs[j].src = SourceOf(docname)
               /\ rf.ret = "return" =>
                     Len(directive.res.images)
                         = Cardinality(FigLines(directive.res.to_run))

\* after a directive that failed and left a figure live, a directive without
\* keepfigs harvests the one figure it made
OwnFiguresWitness ==
    /\ Harvested
    /\ "keepfigs" \notin DOMAIN directive.options
    /\ directive.after_failure
    /\ directive.figs_before # <<>>
    /\ directive.res.counter >= 2
    /\ Len(directive.res.images) = 1
    /\ directive.res.images[1].basename.index = <<>>

----------------------------------------------------------------------------
(* Directives under configurations of nbplot_formats *)

\* conf.py sets nbplot_formats: the default formats; a tuple entry; an entry
\* that is neither a string nor a 2-sequence, alone and after a good one;
\* 'png:high'; ('png', None)
FormatsConfigs ==
    { [DefaultConfig EXCEPT !.nbplot_formats = formats] : formats \in
        { DefaultConfig.nbplot_formats,
          <<Format("suffix", "png", 0, TRUE), Format("tuple", "svg", 100, TRUE)>>,
          <<Format("other", "", 0, FALSE)>>,
          <<Format("suffix", "png", 0, TRUE), Format("other", "", 0, FALSE)>>,
          <<Format("suffix:dpi", "png", 0, FALSE)>>,
          <<Format("tuple", "png", 0, FALSE)>> } }

FormatsContents == {<<Py("fig", "")>>, <<Py("bind", "x")>>}

FormatsNBPlot ==
    \E config \in FormatsConfigs, content \in FormatsContents :
        NBPlotDirectiveRun(EmptyNs, content, config, TRUE)

NextFormats == ReadDoc \/ PurgeDoc \/ FormatsNBPlot

SpecFormats == Init /\ [][NextFormats]_vars

\* an entry that lines 965-975 do not accept
InvalidFormat(fmt) ==
    \/ fmt.kind \notin {"suffix", "suffix:dpi", "tuple"}
    \/ fmt.kind \in {"suffix:dpi", "tuple"} /\ ~fmt.numeric

\* C18: a directive run with an invalid entry in nbplot_formats raises; it
\* does not return nodes.
InvalidFormatAborts ==
    directive.called
        /\ (\E i \in DOMAIN directive.config.nbplot_formats :
               InvalidFormat(directive.config.nbplot_formats[i]))
        => directive.res.ret = "raise"

----------------------------------------------------------------------------
(* The nodes of a directive with parts and a format option *)

\* two parts: both doctest, both plain Python, one of each, and with code
\* that fails in the first or the second part
NodeContents ==
    { <<Doctest("bind", "x"), Blank, PartSep, Blank, Doctest("fig", "")>>,
      <<Py("bind", "x"), Blank, PartSep, Blank, Py("fig", "")>>,
      <<Py("bind", "x"), Blank, PartSep, Blank, Doctest("fig", "")>>,
      <<Doctest("bind", "x"), Blank, PartSep, Blank, Py("raise", "ValueError")>>,
      <<Doctest("raise", "ValueError"), Blank, PartSep, Blank, Doctest("bind", "x")>> }

NodeOptions ==
    {a @@ b @@ c :
        a \in OptionSets("format", {"python", "doctest"}),
        b \in OptionSets("render-parts", {Lit(PyInt(0)), Lit(PyInt(1))}),
        c \in OptionSets("run-parts", {Lit(PyInt(0)), Lit(PyInt(1))})}

\* the first directive of index.rst is about to run
InitNodes ==
    /\ InitProcess
    /\ nbplot_reset_markers = [d \in Docs |-> FALSE]
    /\ nbplot_flag_namespaces =
          [d \in Docs |-> IF d = "index" THEN copy(DefaultFlags) ELSE copy(EmptyNs)]
    /\ nbplot_flags = DefaultFlags
    /\ flag_assigned = EmptyNs
    /\ docname = "index"
    /\ plot_counter = 0
    /\ rc = NoCall
    /\ sel = NoCall
    /\ pp = NoCall
    /\ visit = NoCall
    /\ stale = {}
    /\ doc_bound = {}
    /\ doc_out = NoOutput
    /\ directive \in [called : {FALSE}, options : NodeOptions, content : NodeContents,
                      config : {Config(TRUE)}]

NodesRun ==
    /\ ~directive.called
    /\ NBPlotDirectiveRun(directive.options, directive.content, directive.config, TRUE)

NextNodes == NodesRun

SpecNodes == InitNodes /\ [][NextNodes]_vars

\* the nodes run returned are the rendered node, the epilogue, the system
\* message if render_figures failed and, if final, a node of the executed text
\* with hide-from ['all'] and show-to ['doctest'], and nothing else
NodeOrder(final) ==
    LET res == directive.res
        nodes == res.nodes
        d == IF res.rf.ret = "raise" THEN 1 ELSE 0
        f == IF final THEN 1 ELSE 0
    IN  /\ Len(nodes) = 2 + d + f
        /\ nodes[1].cls = "nbplot_container"
        /\ nodes[1].lines \in {RStripRows(res.to_render), CodeBlock(RStripRows(res.to_render))}
        /\ nodes[2].cls = "nbplot_epilogue"
        /\ d = 1 => nodes[3].cls = "system_message"
        /\ final =>
              /\ nodes[Len(nodes)].cls = "nbplot_container"
              /\ nodes[Len(nodes)].lines = RStripRows(res.to_run)
              /\ nodes[Len(nodes)].attrs =
                    ("hide-from" :> <<"all">>) @@ ("show-to" :> <<"doctest">>)

\* C20 as stated: the nodes are the rendered node, the epilogue, the
\* diagnostics and then the node of the executed text, which is there if and
\* only if the rendered text differs from the executed text and the executed
\* text is in doctest notation.
NodeOrderOriginal ==
    directive.called /\ directive.res.ret = "return"
        => NodeOrder(/\ directive.res.to_render # directive.res.to_run
                     /\ contains_doctest(directive.res.to_run))

\* C20 amended: the nodes are the rendered node, the epilogue, the
\* diagnostics and then the node of the executed text, which is there if and
\* only if the rendered text differs from the executed text and the executed
\* text counts as doctest: by the format option when the directive has one
\* (any format but 'python'), and by its notation when it has none.
NodeOrderAmended ==
    directive.called /\ directive.res.ret = "return"
        => NodeOrder(/\ directive.res.to_render # directive.res.to_run
                     /\ IF "format" \in DOMAIN directive.options
                        THEN directive.options["format"] = "doctest"
                        ELSE contains_doctest(directive.res.to_run))

\* all four nodes: the executed doctest part fails and is not the one rendered
NodeOrderWitness ==
    /\ directive.called
    /\ directive.res.ret = "return"
    /\ "format" \notin DOMAIN directive.options
    /\ directive.res.to_render # directive.res.to_run
    /\ directive.res.rf.ret = "raise"
    /\ Len(directive.res.nodes) = 4
    /\ directive.res.nodes[3].cls = "system_message"
    /\ directive.res.nodes[4].attrs = ("hide-from" :> <<"all">>) @@ ("show-to" :> <<"doctest">>)

----------------------------------------------------------------------------
(* The plot counter of a document *)

\* C21: the document being read has had as many nbplot directives as its
\* plot counter says, whether they returned or raised; the k-th had the
\* output base of counter k, so no two of them had the same; and no
\* directive wrote an image file under a name that an earlier directive of
\* the document had written.
CounterNamesApart ==
    /\ docname \in Docs =>
          /\ Len(doc_out.bases) = plot_counter
          /\ \A k \in DOMAIN doc_out.bases :
                /\ doc_out.bases[k].n = k
                /\ doc_out.bases[k] = OutputBase(SourceOf(docname), k)
          /\ \A j, k \in DOMAIN doc_out.bases :
                j # k => doc_out.bases[j] # doc_out.bases[k]
    /\ directive.called =>
          /\ directive.res.counter = plot_counter
          /\ directive.res.output_base = doc_out.bases[plot_counter]
          /\ directive.overwrites = {}
          /\ \A j \in DOMAIN directive.res.images :
                directive.res.images[j].basename.base = directive.res.output_base

\* the third directive of a document writes images, after one that raised and
\* one that wrote images
CounterWitness ==
    /\ directive.called
    /\ plot_counter = 3
    /\ doc_out.raised
    /\ directive.res.ret = "return"
    /\ directive.res.images # <<>>
    /\ ImageNames(directive.res.images) # doc_out.files

====
